---- MODULE Spec2Model ----
(***************************************************************************)
(* A model of the UML Designer parser of jhipster-uml                      *)
(* (UMLDesignerParser: parse, findElements, fillTypes, addType, fillEnums, *)
(* fillClassesAndFields, handleAttributes, checkForUserClass, addClass,    *)
(* addRegularField, fillAssociations).                                     *)
(*                                                                         *)
(* Strings of the program are sequences of one-character strings, so that  *)
(* upperFirst, lowerFirst, toUpperCase and toLowerCase are computed and    *)
(* not assumed.  The JavaScript value undefined is the sequence Undefined. *)
(***************************************************************************)
EXTENDS Integers, Sequences, FiniteSets, TLC

VARIABLES root, databaseType, rawTypesIndexes, rawEnumsIndexes,
          rawClassesIndexes, rawAssociationsIndexes, parsedData,
          userClassId, pc, idx, aidx, error, returned

vars == <<root, databaseType, rawTypesIndexes, rawEnumsIndexes,
          rawClassesIndexes, rawAssociationsIndexes, parsedData,
          userClassId, pc, idx, aidx, error, returned>>

-----------------------------------------------------------------------------
(* Bounds *)

\* Longest document (number of packagedElement entries) of the general inputs.
MaxElems == 2

-----------------------------------------------------------------------------
(* JavaScript strings *)

Undefined == <<"undefined">>

LowerLetters ==
  <<"a","b","c","d","e","f","g","h","i","j","k","l","m",
    "n","o","p","q","r","s","t","u","v","w","x","y","z">>
UpperLetters ==
  <<"A","B","C","D","E","F","G","H","I","J","K","L","M",
    "N","O","P","Q","R","S","T","U","V","W","X","Y","Z">>

IsLower(c) == \E i \in 1..Len(LowerLetters) : LowerLetters[i] = c
IsUpper(c) == \E i \in 1..Len(UpperLetters) : UpperLetters[i] = c
IsLetter(c) == IsLower(c) \/ IsUpper(c)

toUpperChar(c) ==
  IF IsLower(c)
    THEN UpperLetters[CHOOSE i \in 1..Len(LowerLetters) : LowerLetters[i] = c]
    ELSE c
toLowerChar(c) ==
  IF IsUpper(c)
    THEN LowerLetters[CHOOSE i \in 1..Len(UpperLetters) : UpperLetters[i] = c]
    ELSE c

\* String.prototype.toUpperCase / toLowerCase on a defined string.
toUpperCase(s) == [i \in 1..Len(s) |-> toUpperChar(s[i])]
toLowerCase(s) == [i \in 1..Len(s) |-> toLowerChar(s[i])]

\* lodash: upperFirst(undefined) and upperFirst('') are ''.
upperFirst(s) ==
  IF s = Undefined \/ s = <<>> THEN <<>>
  ELSE <<toUpperChar(s[1])>> \o Tail(s)
lowerFirst(s) ==
  IF s = Undefined \/ s = <<>> THEN <<>>
  ELSE <<toLowerChar(s[1])>> \o Tail(s)

\* String.prototype.substring(m - 1, n): the characters at positions m..n.
Slice(s, m, n) == [i \in 1..(n - m + 1) |-> s[i + m - 1]]

\* The operand of a JavaScript `!x` test on a string-or-undefined value.
Falsy(s) == s = Undefined \/ s = <<>>

\* The xmi:id of the packagedElement at position i, of its j-th attribute.
Digits == <<"1","2","3","4","5","6","7","8","9">>
ElementId(i) == <<"_", "e", Digits[i]>>
AttributeId(i, j) == <<"_", "e", Digits[i], "a", Digits[j]>>

-----------------------------------------------------------------------------
(* Database type policy (jhipster-core types and reserved keywords) *)

Backends == {"sql", "mongodb", "cassandra"}

String_ == <<"S","t","r","i","n","g">>
UUID_ == <<"U","U","I","D">>

\* The primitive types a backend allows.
AllowedTypes(db) ==
  IF db = "cassandra" THEN {String_, UUID_} ELSE {String_}

\* databaseTypes.contains: membership in the backend's allowed set,
\* insensitive to case.
contains(db, name) ==
  \E t \in AllowedTypes(db) : toUpperCase(t) = toUpperCase(name)

ReservedClassNames == { <<"C","L","A","S","S">> }
ReservedTableNames(db) ==
  IF db = "sql" THEN { <<"O","R","D","E","R">> } ELSE {}
ReservedFieldNames(db) ==
  IF db = "mongodb" THEN {} ELSE { <<"F","R","O","M">> }

isReservedClassName(name) ==
  name # Undefined /\ toUpperCase(name) \in ReservedClassNames
isReservedTableName(name, db) ==
  name # Undefined /\ toUpperCase(name) \in ReservedTableNames(db)
isReservedFieldName(name, db) ==
  name # Undefined /\ toUpperCase(name) \in ReservedFieldNames(db)

\* checkForReserved...Name({name, databaseTypeName, shouldThrow: true}):
\* TRUE when the call throws.
checkForReservedClassName(name) == isReservedClassName(name)
checkForReservedTableName(name, db) == isReservedTableName(name, db)
checkForReservedFieldName(name, db) == isReservedFieldName(name, db)

-----------------------------------------------------------------------------
(* Parser helper *)

\* The position of the first "(" of a label, 0 when there is none.
FirstParen(s) ==
  IF \E i \in 1..Len(s) : s[i] = "("
    THEN CHOOSE i \in 1..Len(s) :
           s[i] = "(" /\ \A j \in 1..(i - 1) : s[j] # "("
    ELSE 0

\* snake case of a camel-case word: an underscore before every upper-case
\* letter that follows a lower-case one, then lower case.
RECURSIVE snakeCase(_)
snakeCase(s) ==
  IF Len(s) <= 1 THEN toLowerCase(s)
  ELSE LET n == Len(s)
           h == snakeCase(Slice(s, 1, n - 1))
       IN  IF IsUpper(s[n]) /\ IsLower(s[n - 1])
             THEN h \o <<"_", toLowerChar(s[n])>>
             ELSE h \o <<toLowerChar(s[n])>>

\* "Entity" -> entity name Entity, table name entity;
\* "Entity(table)" -> entity name Entity, table name table.
extractClassName(name) ==
  LET p == FirstParen(name)
  IN  IF p = 0
        THEN [entityName |-> name, tableName |-> snakeCase(name)]
        ELSE [entityName |-> Slice(name, 1, p - 1),
              tableName |-> snakeCase(Slice(name, p + 1, Len(name) - 1))]

\* The structural-identifier convention: the attribute is called id.
isAnId(name) == toLowerCase(name) = <<"i","d">>

\* The trailing run of letters of a type reference link.
getTypeNameFromURL(url) ==
  LET n == Len(url)
      k == CHOOSE j \in 0..n :
             /\ \A i \in (n - j + 1)..n : IsLetter(url[i])
             /\ (j < n => ~IsLetter(url[n - j]))
  IN  Slice(url, n - k + 1, n)

-----------------------------------------------------------------------------
(* Intermediate model (ParsedData) *)

Put(f, k, v) == [x \in (DOMAIN f) \cup {k} |-> IF x = k THEN v ELSE f[x]]

EmptyParsedData ==
  [types |-> <<>>, enums |-> <<>>, classes |-> <<>>, fields |-> <<>>,
   associations |-> <<>>]

ParsedData_addType(pd, id, data) ==
  [pd EXCEPT !.types = Put(@, id, data)]
ParsedData_addEnum(pd, id, data) ==
  [pd EXCEPT !.enums = Put(@, id, data)]
ParsedData_addClass(pd, id, data) ==
  [pd EXCEPT !.classes = Put(@, id, data)]
ParsedData_addField(pd, classId, id, data) ==
  [pd EXCEPT !.fields = Put(@, id, data @@ ("ownerClassId" :> classId))]
ParsedData_addAssociation(pd, id, data) ==
  [pd EXCEPT !.associations = Put(@, id, data)]

-----------------------------------------------------------------------------
(* Cardinalities *)

ONE_TO_ONE == "one-to-one"
ONE_TO_MANY == "one-to-many"
MANY_TO_ONE == "many-to-one"
MANY_TO_MANY == "many-to-many"

-----------------------------------------------------------------------------
(* UMLDesignerParser: the operations on one element.  Each yields the      *)
(* error it throws ("none" when it returns) and the model it leaves.       *)

Ok(pd) == [error |-> "none", data |-> pd]
Throw(kind, pd) == [error |-> kind, data |-> pd]

\* addType storing the name as given instead of capitalized.
addType_NameAsGiven(pd, db, typeName, typeId) ==
  IF ~contains(db, upperFirst(typeName))
    THEN Throw("WrongType", pd)
    ELSE Ok(ParsedData_addType(pd, typeId, [name |-> typeName]))

addType(pd, db, typeName, typeId) ==
  IF ~contains(db, upperFirst(typeName))
    THEN Throw("WrongType", pd)
    ELSE Ok(ParsedData_addType(pd, typeId, [name |-> upperFirst(typeName)]))

\* The body of the forEach of fillTypes, on the element at position i.
fillTypesElement(pd, db, doc, i) ==
  addType(pd, db, doc[i].name, ElementId(i))

\* The error the literal at position k raises: toUpperCase of undefined is a
\* TypeError of the runtime, an empty upper-cased name is a NullPointer.
LiteralError(lit) ==
  IF lit = Undefined THEN "TypeError"
  ELSE IF toUpperCase(lit) = <<>> THEN "NullPointer"
  ELSE "none"

\* The body of the forEach of fillEnums, on the element at position i.
fillEnumsElement(pd, doc, i) ==
  LET enumElement == doc[i]
      lits == enumElement.ownedLiteral
      bad == {k \in 1..Len(lits) : LiteralError(lits[k]) # "none"}
  IN  IF Falsy(enumElement.name) THEN Throw("NullPointer", pd)
      ELSE IF bad # {}
        THEN Throw(LiteralError(lits[CHOOSE k \in bad : \A m \in bad : k <= m]),
                   pd)
        ELSE Ok(ParsedData_addEnum(pd, ElementId(i),
                  [name |-> enumElement.name,
                   values |-> [k \in 1..Len(lits) |-> toUpperCase(lits[k])]]))

\* checkForUserClass without the test that the id is still unset.
checkForUserClass_LastWins(ucid, name, id) ==
  IF toLowerCase(name) = <<"u","s","e","r">> THEN id ELSE ucid

checkForUserClass(ucid, name, id) ==
  IF Falsy(ucid) /\ toLowerCase(name) = <<"u","s","e","r">> THEN id ELSE ucid

WithComment(data, comment) ==
  IF Falsy(comment) THEN data ELSE data @@ ("comment" :> comment)

\* addClass without the check of the table name.
addClass_NoTableCheck(pd, db, element, id) ==
  LET names == extractClassName(element.name)
      classData == [name |-> upperFirst(names.entityName),
                    tableName |-> names.tableName]
  IN  IF checkForReservedClassName(classData.name)
        THEN Throw("ReservedName", pd)
      ELSE Ok(ParsedData_addClass(pd, id,
                WithComment(classData, element.comment)))

addClass(pd, db, element, id) ==
  LET names == extractClassName(element.name)
      classData == [name |-> upperFirst(names.entityName),
                    tableName |-> names.tableName]
  IN  IF checkForReservedClassName(classData.name)
        THEN Throw("ReservedName", pd)
      ELSE IF checkForReservedTableName(classData.tableName, db)
        THEN Throw("ReservedName", pd)
      ELSE Ok(ParsedData_addClass(pd, id,
                WithComment(classData, element.comment)))

\* The body of the forEach of fillClassesAndFields up to handleAttributes.
fillClassesElement(pd, db, ucid, doc, i) ==
  LET element == doc[i]
  IN  IF Falsy(element.name)
        THEN Throw("NullPointer", pd) @@ ("userClassId" :> ucid)
        ELSE addClass(pd, db, element, ElementId(i))
             @@ ("userClassId" :>
                   checkForUserClass(ucid, element.name, ElementId(i)))

\* addRegularField letting a field without any type through.
addRegularField_NoWrongField(pd, db, element, id, classId) ==
  LET fieldData == [name |-> lowerFirst(element.name)]
      typeName == upperFirst(getTypeNameFromURL(element.href))
      typed == addType(pd, db, typeName, typeName)
  IN  IF checkForReservedFieldName(element.name, db)
        THEN Throw("ReservedName", pd)
      ELSE IF ~Falsy(element.type) \/ element.href = Undefined
        THEN Ok(ParsedData_addField(pd, classId, id,
                  WithComment(fieldData @@ ("type" :> element.type),
                              element.comment)))
      ELSE IF typed.error # "none"
        THEN typed
      ELSE Ok(ParsedData_addField(typed.data, classId, id,
                WithComment(fieldData @@ ("type" :> typeName),
                            element.comment)))

addRegularField(pd, db, element, id, classId) ==
  LET fieldData == [name |-> lowerFirst(element.name)]
      typeName == upperFirst(getTypeNameFromURL(element.href))
      typed == addType(pd, db, typeName, typeName)
  IN  IF checkForReservedFieldName(element.name, db)
        THEN Throw("ReservedName", pd)
      ELSE IF ~Falsy(element.type)
        THEN Ok(ParsedData_addField(pd, classId, id,
                  WithComment(fieldData @@ ("type" :> element.type),
                              element.comment)))
      ELSE IF element.href = Undefined
        THEN Throw("WrongField", pd)
      ELSE IF typed.error # "none"
        THEN typed
      ELSE Ok(ParsedData_addField(typed.data, classId, id,
                WithComment(fieldData @@ ("type" :> typeName),
                            element.comment)))

addField(pd, db, element, id, classId) ==
  addRegularField(pd, db, element, id, classId)

\* The body of the forEach of handleAttributes, on attribute j of element i.
handleAttribute(pd, db, doc, i, j) ==
  LET attribute == doc[i].ownedAttribute[j]
  IN  IF Falsy(attribute.name) THEN Throw("NullPointer", pd)
      ELSE IF ~isAnId(attribute.name)
        THEN addField(pd, db, attribute, AttributeId(i, j), ElementId(i))
      ELSE Ok(pd)

\* cardinalityOf with the two one-sided cases exchanged.
cardinalityOf_Exchanged(upper0, upper1) ==
  IF upper1 = "*" /\ upper0 = "*" THEN MANY_TO_MANY
  ELSE IF upper1 = "*" /\ upper0 # "*" THEN MANY_TO_ONE
  ELSE IF upper1 # "*" /\ upper0 = "*" THEN ONE_TO_MANY
  ELSE ONE_TO_ONE

cardinalityOf(upper0, upper1) ==
  IF upper1 = "*" /\ upper0 = "*" THEN MANY_TO_MANY
  ELSE IF upper1 = "*" /\ upper0 # "*" THEN ONE_TO_MANY
  ELSE IF upper1 # "*" /\ upper0 = "*" THEN MANY_TO_ONE
  ELSE ONE_TO_ONE

requiredFlags(lower0, lower1) ==
  (IF lower0 # "0" THEN ("isInjectedFieldInFromRequired" :> TRUE) ELSE <<>>)
  @@
  (IF lower1 # "0" THEN ("isInjectedFieldInToRequired" :> TRUE) ELSE <<>>)

\* associationEnds giving each side its own end's role name.
associationEnds_NotCrossed(end0, end1) ==
  [from |-> end0.type, to |-> end1.type,
   injectedFieldInFrom |-> end0.name, injectedFieldInTo |-> end1.name]

associationEnds(end0, end1) ==
  [from |-> end0.type, to |-> end1.type,
   injectedFieldInFrom |-> end1.name, injectedFieldInTo |-> end0.name]

\* The body of the forEach of fillAssociations, on the element at position i.
fillAssociationsElement(pd, doc, i) ==
  LET association == doc[i]
      end0 == association.ownedEnd[1]
      end1 == association.ownedEnd[2]
      associationData ==
        associationEnds(end0, end1)
        @@ requiredFlags(end0.lower, end1.lower)
        @@ ("type" :> cardinalityOf(end0.upper, end1.upper))
        @@ (IF Falsy(association.comment) THEN <<>>
            ELSE [commentInFrom |-> association.comment,
                  commentInTo |-> association.comment])
  IN  Ok(ParsedData_addAssociation(pd, ElementId(i), associationData))

\* The positions of the elements of a document whose xmi:type is in kinds,
\* in document order.
RECURSIVE IndexesOf(_, _, _)
IndexesOf(doc, kinds, n) ==
  IF n = 0 THEN <<>>
  ELSE IF doc[n].kind \in kinds
    THEN Append(IndexesOf(doc, kinds, n - 1), n)
    ELSE IndexesOf(doc, kinds, n - 1)

-----------------------------------------------------------------------------
(* Input documents: root.packagedElement as a sequence of elements *)

Element(kind, name) ==
  [kind |-> kind, name |-> name, ownedLiteral |-> <<>>,
   ownedAttribute |-> <<>>, ownedEnd |-> <<>>, comment |-> Undefined]
Attribute(name, type, href, comment) ==
  [name |-> name, type |-> type, href |-> href, comment |-> comment]
End(type, name, lower, upper) ==
  [type |-> type, name |-> name, lower |-> lower, upper |-> upper]

TypeElement(kind, name) == Element(kind, name)
EnumElement(name, lits) ==
  [Element("uml:Enumeration", name) EXCEPT !.ownedLiteral = lits]
ClassElement(name, attrs, comment) ==
  [Element("uml:Class", name) EXCEPT !.ownedAttribute = attrs,
                                     !.comment = comment]
AssociationElement(end0, end1, comment) ==
  [Element("uml:Association", Undefined) EXCEPT !.ownedEnd = <<end0, end1>>,
                                                !.comment = comment]

SeqsUpTo(S, n) == UNION {[1..k -> S] : k \in 0..n}

string_ == <<"s","t","r","i","n","g">>
HrefString == <<"l","i","b",".","u","m","l","#">> \o string_
HrefUUID == <<"l","i","b",".","u","m","l","#">> \o UUID_
Text == <<"a"," ","c","o","m","m","e","n","t">>
User_ == <<"U","s","e","r">>
user_ == <<"u","s","e","r">>

\* The elements every general document is made of.
CoreElements ==
  { TypeElement("uml:PrimitiveType", string_),
    EnumElement(<<"E">>, << <<"o","n">> >>),
    ClassElement(user_, <<>>, Undefined),
    ClassElement(User_,
                 << Attribute(<<"n">>, Undefined, HrefString, Text) >>, Text),
    AssociationElement(End(ElementId(1), <<"a">>, "0", "*"),
                       End(ElementId(2), <<"b">>, "1", "1"), Text) }

TypeNames ==
  { string_, String_, UUID_, <<"u","u","i","d">>, <<"f","o","o">>,
    Undefined, <<>> }
RichTypes ==
  { TypeElement(k, n) : k \in {"uml:PrimitiveType", "uml:DataType"},
                        n \in TypeNames }

LiteralNames == { <<"o","n">>, <<>>, Undefined }
RichEnums ==
  { EnumElement(n, l) : n \in { <<"E">>, <<>>, Undefined },
                        l \in SeqsUpTo(LiteralNames, 2) }

ClassNames ==
  { Undefined, <<>>, user_, User_, <<"U","S","E","R">>,
    <<"c","l","a","s","s">>, <<"O","r","d","e","r">>,
    <<"A","(","o","r","d","e","r",")">>, <<"C","l","a","s","s","(","t",")">>,
    <<"m","y","O","r","d","e","r">> }
AttributeNames ==
  { Undefined, <<>>, <<"i","d">>, <<"I","d">>, <<"N","a","m","e">>,
    <<"f","r","o","m">>, <<"F","r","o","m">> }
RichAttributes ==
  { Attribute(n, t, h, Undefined) :
      n \in AttributeNames,
      t \in {Undefined, ElementId(1)},
      h \in {Undefined, HrefString, HrefUUID} }
GoodAttributes ==
  { Attribute(<<"n">>, Undefined, HrefString, Text) }
RichClasses ==
  { ClassElement(n, <<>>, Undefined) : n \in ClassNames }
  \cup { ClassElement(<<"A">>, <<a>>, Undefined) : a \in RichAttributes }
  \cup { ClassElement(user_, <<g, a>>, Undefined) :
           g \in GoodAttributes, a \in RichAttributes }

Lowers == {"0", "1"}
Uppers == {"1", "*", "5"}
DanglingId == ElementId(9)
RichAssociations ==
  { AssociationElement(End(ElementId(1), <<"a">>, l0, u0),
                       End(ElementId(2), <<"b">>, l1, u1), Undefined) :
      l0 \in Lowers, l1 \in Lowers, u0 \in Uppers, u1 \in Uppers }
  \cup { AssociationElement(End(t0, <<"a">>, "1", "*"),
                            End(t1, Undefined, "0", "1"), Undefined) :
           t0 \in {ElementId(1), ElementId(2)},
           t1 \in {ElementId(1), DanglingId} }

RichElements ==
  { Element("uml:Package", <<"p">>) }
  \cup RichTypes \cup RichEnums \cup RichClasses \cup RichAssociations

InsertAt(s, k, e) ==
  [i \in 1..(Len(s) + 1) |-> IF i < k THEN s[i] ELSE IF i = k THEN e ELSE s[i - 1]]

\* The documents: at most MaxElems elements, at most one of them outside
\* the core elements.
Documents ==
  SeqsUpTo(CoreElements, MaxElems)
  \cup UNION { { InsertAt(s, k, e) : k \in 1..(Len(s) + 1),
                                       e \in RichElements } :
               s \in SeqsUpTo(CoreElements, MaxElems - 1) }

-----------------------------------------------------------------------------
(* The parser *)

Init ==
  /\ root \in Documents
  /\ databaseType \in Backends
  /\ rawTypesIndexes = <<>>
  /\ rawEnumsIndexes = <<>>
  /\ rawClassesIndexes = <<>>
  /\ rawAssociationsIndexes = <<>>
  /\ parsedData = EmptyParsedData
  /\ userClassId = Undefined
  /\ pc = "findElements"
  /\ idx = 1
  /\ aidx = 1
  /\ error = "none"
  /\ returned = <<>>

\* Outcome with the throw caught and the loop going on.
Outcome_Caught(r, nextPc, nextIdx, nextAidx) ==
  /\ parsedData' = r.data
  /\ error' = "none"
  /\ pc' = nextPc /\ idx' = nextIdx /\ aidx' = nextAidx

\* A step of a forEach: the outcome r of its body on the current element.
\* A throw leaves the parser where it is, for good.
Outcome(r, nextPc, nextIdx, nextAidx) ==
  /\ parsedData' = r.data
  /\ error' = r.error
  /\ IF r.error = "none"
       THEN pc' = nextPc /\ idx' = nextIdx /\ aidx' = nextAidx
       ELSE UNCHANGED <<pc, idx, aidx>>

findElements ==
  /\ pc = "findElements" /\ error = "none"
  /\ rawTypesIndexes' =
       IndexesOf(root, {"uml:PrimitiveType", "uml:DataType"}, Len(root))
  /\ rawEnumsIndexes' = IndexesOf(root, {"uml:Enumeration"}, Len(root))
  /\ rawClassesIndexes' = IndexesOf(root, {"uml:Class"}, Len(root))
  /\ rawAssociationsIndexes' =
       IndexesOf(root, {"uml:Association"}, Len(root))
  /\ pc' = "fillTypes"
  /\ UNCHANGED <<root, databaseType, parsedData, userClassId, idx, aidx,
                 error, returned>>

fillTypes ==
  /\ pc = "fillTypes" /\ error = "none"
  /\ IF idx <= Len(rawTypesIndexes)
       THEN Outcome(fillTypesElement(parsedData, databaseType, root,
                                     rawTypesIndexes[idx]),
                    pc, idx + 1, aidx)
       ELSE /\ pc' = "fillEnums" /\ idx' = 1
            /\ UNCHANGED <<parsedData, error, aidx>>
  /\ UNCHANGED <<root, databaseType, rawTypesIndexes, rawEnumsIndexes,
                 rawClassesIndexes, rawAssociationsIndexes, userClassId,
                 returned>>

fillEnums ==
  /\ pc = "fillEnums" /\ error = "none"
  /\ IF idx <= Len(rawEnumsIndexes)
       THEN Outcome(fillEnumsElement(parsedData, root, rawEnumsIndexes[idx]),
                    pc, idx + 1, aidx)
       ELSE /\ pc' = "fillClassesAndFields" /\ idx' = 1
            /\ UNCHANGED <<parsedData, error, aidx>>
  /\ UNCHANGED <<root, databaseType, rawTypesIndexes, rawEnumsIndexes,
                 rawClassesIndexes, rawAssociationsIndexes, userClassId,
                 returned>>

fillClassesAndFields ==
  /\ pc = "fillClassesAndFields" /\ error = "none"
  /\ IF idx <= Len(rawClassesIndexes)
       THEN LET i == rawClassesIndexes[idx]
                r == fillClassesElement(parsedData, databaseType, userClassId,
                                        root, i)
            IN  /\ userClassId' = r.userClassId
                /\ IF root[i].ownedAttribute # <<>>
                     THEN Outcome(r, "handleAttributes", idx, 1)
                     ELSE Outcome(r, pc, idx + 1, aidx)
       ELSE /\ pc' = "fillAssociations" /\ idx' = 1
            /\ UNCHANGED <<parsedData, error, aidx, userClassId>>
  /\ UNCHANGED <<root, databaseType, rawTypesIndexes, rawEnumsIndexes,
                 rawClassesIndexes, rawAssociationsIndexes, returned>>

handleAttributes ==
  /\ pc = "handleAttributes" /\ error = "none"
  /\ LET i == rawClassesIndexes[idx]
     IN  IF aidx <= Len(root[i].ownedAttribute)
           THEN Outcome(handleAttribute(parsedData, databaseType, root, i,
                                        aidx),
                        pc, idx, aidx + 1)
           ELSE /\ pc' = "fillClassesAndFields" /\ idx' = idx + 1
                /\ UNCHANGED <<parsedData, error, aidx>>
  /\ UNCHANGED <<root, databaseType, rawTypesIndexes, rawEnumsIndexes,
                 rawClassesIndexes, rawAssociationsIndexes, userClassId,
                 returned>>

fillAssociations ==
  /\ pc = "fillAssociations" /\ error = "none"
  /\ IF idx <= Len(rawAssociationsIndexes)
       THEN Outcome(fillAssociationsElement(parsedData, root,
                                            rawAssociationsIndexes[idx]),
                    pc, idx + 1, aidx)
       ELSE /\ pc' = "return" /\ idx' = 1
            /\ UNCHANGED <<parsedData, error, aidx>>
  /\ UNCHANGED <<root, databaseType, rawTypesIndexes, rawEnumsIndexes,
                 rawClassesIndexes, rawAssociationsIndexes, userClassId,
                 returned>>

\* return this.parsedData
parseReturn ==
  /\ pc = "return" /\ error = "none"
  /\ returned' = <<parsedData>>
  /\ pc' = "done"
  /\ UNCHANGED <<root, databaseType, rawTypesIndexes, rawEnumsIndexes,
                 rawClassesIndexes, rawAssociationsIndexes, parsedData,
                 userClassId, idx, aidx, error>>

Next ==
  \/ findElements
  \/ fillTypes
  \/ fillEnums
  \/ fillClassesAndFields
  \/ handleAttributes
  \/ fillAssociations
  \/ parseReturn

Spec == Init /\ [][Next]_vars

-----------------------------------------------------------------------------
(* Where the parse stands *)

PhaseNo ==
  CASE pc = "findElements" -> 0
    [] pc = "fillTypes" -> 1
    [] pc = "fillEnums" -> 2
    [] pc \in {"fillClassesAndFields", "handleAttributes"} -> 3
    [] pc = "fillAssociations" -> 4
    [] OTHER -> 5

Failed == error # "none"

\* The body of the forEach of phase p has run on the k-th element of its
\* bucket (to its end or to a throw); it threw there.
Attempted(p, k) ==
  PhaseNo > p \/ (PhaseNo = p /\ (idx > k \/ (idx = k /\ Failed)))
FailedAt(p, k) == PhaseNo = p /\ idx = k /\ Failed

AttemptedClass(k) ==
  \/ PhaseNo > 3
  \/ /\ PhaseNo = 3
     /\ (idx > k \/ (idx = k /\ (pc = "handleAttributes" \/ Failed)))
FailedAtClass(k) == pc = "fillClassesAndFields" /\ idx = k /\ Failed

AttemptedAttribute(k, j) ==
  \/ PhaseNo > 3
  \/ /\ PhaseNo = 3
     /\ \/ idx > k
        \/ /\ idx = k /\ pc = "handleAttributes"
           /\ (aidx > j \/ (aidx = j /\ Failed))
FailedAtAttribute(k, j) ==
  pc = "handleAttributes" /\ idx = k /\ aidx = j /\ Failed

Has(f, field) == field \in DOMAIN f

-----------------------------------------------------------------------------
(* Associations *)

\* C1: every association fillAssociations has processed is stored with the
\* cardinality its two upper values give: both '*' MANY_TO_MANY, only end1
\* '*' ONE_TO_MANY, only end0 '*' MANY_TO_ONE, neither ONE_TO_ONE.
C1_CardinalityDerivation ==
  \A k \in 1..Len(rawAssociationsIndexes) :
    Attempted(4, k) =>
      LET i == rawAssociationsIndexes[k]
          u0 == root[i].ownedEnd[1].upper
          u1 == root[i].ownedEnd[2].upper
      IN  /\ Has(parsedData.associations, ElementId(i))
          /\ LET t == parsedData.associations[ElementId(i)].type
             IN  /\ (u0 = "*" /\ u1 = "*") => t = MANY_TO_MANY
                 /\ (u0 # "*" /\ u1 = "*") => t = ONE_TO_MANY
                 /\ (u0 = "*" /\ u1 # "*") => t = MANY_TO_ONE
                 /\ (u0 # "*" /\ u1 # "*") => t = ONE_TO_ONE

C1_Witness ==
  /\ pc = "done"
  /\ \E k \in 1..Len(rawAssociationsIndexes) :
       LET i == rawAssociationsIndexes[k]
       IN  /\ root[i].ownedEnd[1].upper = "5"
           /\ root[i].ownedEnd[2].upper = "*"
           /\ parsedData.associations[ElementId(i)].type = ONE_TO_MANY

\* C2: for every association fillAssociations has processed, a lower bound
\* other than 0 on end0 sets isInjectedFieldInToRequired to true, and a lower
\* bound of 0 on both ends sets neither required flag.
C2_RequiredFlags ==
  \A k \in 1..Len(rawAssociationsIndexes) :
    Attempted(4, k) =>
      LET i == rawAssociationsIndexes[k]
          l0 == root[i].ownedEnd[1].lower
          l1 == root[i].ownedEnd[2].lower
          a == parsedData.associations[ElementId(i)]
      IN  /\ l0 # "0" => /\ Has(a, "isInjectedFieldInToRequired")
                         /\ a.isInjectedFieldInToRequired = TRUE
          /\ (l0 = "0" /\ l1 = "0") =>
               /\ ~Has(a, "isInjectedFieldInFromRequired")
               /\ ~Has(a, "isInjectedFieldInToRequired")

\* C3: every association fillAssociations has inserted goes from the class
\* end0 references to the class end1 references, end0's role name being the
\* injected field in 'to' and end1's role name the injected field in 'from'.
C3_EndsCrossAssigned ==
  \A k \in 1..Len(rawAssociationsIndexes) :
    Attempted(4, k) =>
      LET i == rawAssociationsIndexes[k]
          end0 == root[i].ownedEnd[1]
          end1 == root[i].ownedEnd[2]
          a == parsedData.associations[ElementId(i)]
      IN  /\ a.from = end0.type
          /\ a.to = end1.type
          /\ a.injectedFieldInTo = end0.name
          /\ a.injectedFieldInFrom = end1.name

C3_Witness ==
  /\ pc = "done"
  /\ \E k \in 1..Len(rawAssociationsIndexes) :
       LET a == parsedData.associations[ElementId(rawAssociationsIndexes[k])]
       IN  /\ a.from = ElementId(1) /\ a.to = ElementId(2)
           /\ a.injectedFieldInTo = <<"a">>
           /\ a.injectedFieldInFrom = <<"b">>

\* C5: in a model parse() has returned, both ends of every association are
\* ids of classes of the model.
C5_AssociationEndsAreClasses ==
  returned # <<>> =>
    \A id \in DOMAIN returned[1].associations :
      /\ returned[1].associations[id].from \in DOMAIN returned[1].classes
      /\ returned[1].associations[id].to \in DOMAIN returned[1].classes

-----------------------------------------------------------------------------
(* Failures *)

\* The element at position i makes its phase throw (no operation on an
\* element reads the model, so the empty model stands for any).
AttributeRaises(i, j) ==
  handleAttribute(EmptyParsedData, databaseType, root, i, j).error # "none"
ElementRaises(i) ==
  CASE root[i].kind \in {"uml:PrimitiveType", "uml:DataType"} ->
         fillTypesElement(EmptyParsedData, databaseType, root, i).error
           # "none"
    [] root[i].kind = "uml:Enumeration" ->
         fillEnumsElement(EmptyParsedData, root, i).error # "none"
    [] root[i].kind = "uml:Class" ->
         \/ fillClassesElement(EmptyParsedData, databaseType, Undefined,
                               root, i).error # "none"
         \/ \E j \in 1..Len(root[i].ownedAttribute) : AttributeRaises(i, j)
    [] OTHER -> FALSE

\* The phase that handles the element at position i, 0 for an element of
\* no bucket.
PhaseOf(i) ==
  CASE root[i].kind \in {"uml:PrimitiveType", "uml:DataType"} -> 1
    [] root[i].kind = "uml:Enumeration" -> 2
    [] root[i].kind = "uml:Class" -> 3
    [] root[i].kind = "uml:Association" -> 4
    [] OTHER -> 0

EntryIds(pd) ==
  DOMAIN pd.types \cup DOMAIN pd.enums \cup DOMAIN pd.classes
  \cup DOMAIN pd.associations

\* C4 as stated: once a phase has raised, parse() has returned no model and
\* the parser's model holds nothing of what the earlier phases added.
C4_AllOrNothing ==
  Failed => returned = <<>> /\ parsedData = EmptyParsedData

\* C4 as amended: once a phase has raised, no later phase and no later
\* element of the failing phase has run and parse() returns no model (a
\* document with a raising element never yields a model); what was added
\* before the failure stays in the parser's model.
C4_AbortsAtFirstFailure ==
  /\ Failed =>
       /\ returned = <<>>
       /\ \A i \in 1..Len(root) :
            PhaseOf(i) > PhaseNo => ElementId(i) \notin EntryIds(parsedData)
       /\ \A i \in 1..Len(root) :
            (PhaseOf(i) = PhaseNo /\ i > 
               (CASE PhaseNo = 1 -> rawTypesIndexes[idx]
                  [] PhaseNo = 2 -> rawEnumsIndexes[idx]
                  [] PhaseNo = 3 -> rawClassesIndexes[idx]
                  [] OTHER -> rawAssociationsIndexes[idx]))
              => ElementId(i) \notin EntryIds(parsedData)
       /\ \A i \in 1..Len(root) :
            (PhaseOf(i) \in 1..(PhaseNo - 1))
              => ElementId(i) \in EntryIds(parsedData)
  /\ returned # <<>> => \A i \in 1..Len(root) : ~ElementRaises(i)

C4_Witness ==
  /\ Failed /\ PhaseNo = 3 /\ returned = <<>>
  /\ DOMAIN parsedData.types # {}
  /\ \E i \in 1..Len(root) : PhaseOf(i) = 4

-----------------------------------------------------------------------------
(* Types *)

\* The type name addRegularField hands to addType for an attribute that has
\* only a cross-reference.
ReferencedTypeName(attribute) ==
  upperFirst(getTypeNameFromURL(attribute.href))

\* The attribute reaches addType: it is named, is no structural identifier,
\* passes the reserved-word check and has a cross-reference but no inline
\* type.
ReachesAddType(attribute) ==
  /\ ~Falsy(attribute.name) /\ ~isAnId(attribute.name)
  /\ ~isReservedFieldName(attribute.name, databaseType)
  /\ Falsy(attribute.type) /\ attribute.href # Undefined

\* C6: a type name reaching addType, from a type-bucket element or from a
\* field's cross-reference, whose capitalized form the backend does not
\* allow fails with WrongType and inserts no type; one it allows is inserted
\* under the given id with the capitalized name.
C6_AddType ==
  /\ \A k \in 1..Len(rawTypesIndexes) :
       Attempted(1, k) =>
         LET i == rawTypesIndexes[k]
             cap == upperFirst(root[i].name)
         IN  IF ~contains(databaseType, cap)
               THEN /\ FailedAt(1, k) /\ error = "WrongType"
                    /\ ~Has(parsedData.types, ElementId(i))
               ELSE /\ ~FailedAt(1, k)
                    /\ Has(parsedData.types, ElementId(i))
                    /\ parsedData.types[ElementId(i)].name = cap
  /\ \A k \in 1..Len(rawClassesIndexes) :
       \A j \in 1..Len(root[rawClassesIndexes[k]].ownedAttribute) :
         LET attribute == root[rawClassesIndexes[k]].ownedAttribute[j]
             typeName == ReferencedTypeName(attribute)
             cap == upperFirst(typeName)
         IN  (AttemptedAttribute(k, j) /\ ReachesAddType(attribute)) =>
               IF ~contains(databaseType, cap)
                 THEN /\ FailedAtAttribute(k, j) /\ error = "WrongType"
                      /\ ~Has(parsedData.types, typeName)
                 ELSE /\ ~FailedAtAttribute(k, j)
                      /\ Has(parsedData.types, typeName)
                      /\ parsedData.types[typeName].name = cap

C6_Witness ==
  /\ pc = "done"
  /\ Has(parsedData.types, String_)
  /\ \E k \in 1..Len(rawTypesIndexes) :
       /\ root[rawTypesIndexes[k]].name = string_
       /\ parsedData.types[ElementId(rawTypesIndexes[k])].name = String_

-----------------------------------------------------------------------------
(* Fields and classes *)

\* The attribute is named, is no structural identifier and has neither an
\* inline type nor a cross-reference.
Untyped(attribute) ==
  /\ ~Falsy(attribute.name) /\ ~isAnId(attribute.name)
  /\ Falsy(attribute.type) /\ attribute.href = Undefined

\* C7 as stated: every untyped attribute handleAttributes has reached made
\* the parse fail there with WrongField, whatever its name, and is no field
\* of the model.
C7_UntypedFieldIsWrongField ==
  \A k \in 1..Len(rawClassesIndexes) :
    \A j \in 1..Len(root[rawClassesIndexes[k]].ownedAttribute) :
      LET i == rawClassesIndexes[k]
      IN  (AttemptedAttribute(k, j) /\ Untyped(root[i].ownedAttribute[j])) =>
            /\ FailedAtAttribute(k, j) /\ error = "WrongField"
            /\ ~Has(parsedData.fields, AttributeId(i, j))

\* C7 as amended: every untyped attribute handleAttributes has reached made
\* the parse fail there, with ReservedName when its name is a reserved field
\* word of the backend and with WrongField otherwise, and is no field of the
\* model.
C7_UntypedFieldFails ==
  \A k \in 1..Len(rawClassesIndexes) :
    \A j \in 1..Len(root[rawClassesIndexes[k]].ownedAttribute) :
      LET i == rawClassesIndexes[k]
          attribute == root[i].ownedAttribute[j]
      IN  (AttemptedAttribute(k, j) /\ Untyped(attribute)) =>
            /\ FailedAtAttribute(k, j)
            /\ error = IF isReservedFieldName(attribute.name, databaseType)
                         THEN "ReservedName" ELSE "WrongField"
            /\ ~Has(parsedData.fields, AttributeId(i, j))

C7_Witness ==
  /\ error = "WrongField"
  /\ pc = "handleAttributes"
  /\ Untyped(root[rawClassesIndexes[idx]].ownedAttribute[aidx])

\* C8: a class whose canonical entity name or table name is a reserved word,
\* and a field whose lower-first name is a reserved word of the backend, made
\* the parse fail there with ReservedName; no returned model holds such a
\* class or field.
C8_ReservedNames ==
  /\ \A k \in 1..Len(rawClassesIndexes) :
       LET i == rawClassesIndexes[k]
           names == extractClassName(root[i].name)
       IN  ( /\ AttemptedClass(k) /\ ~Falsy(root[i].name)
             /\ \/ isReservedClassName(upperFirst(names.entityName))
                \/ isReservedTableName(names.tableName, databaseType) )
           => /\ FailedAtClass(k) /\ error = "ReservedName"
              /\ ~Has(parsedData.classes, ElementId(i))
  /\ \A k \in 1..Len(rawClassesIndexes) :
       \A j \in 1..Len(root[rawClassesIndexes[k]].ownedAttribute) :
         LET i == rawClassesIndexes[k]
             attribute == root[i].ownedAttribute[j]
         IN  ( /\ AttemptedAttribute(k, j)
               /\ ~Falsy(attribute.name) /\ ~isAnId(attribute.name)
               /\ isReservedFieldName(lowerFirst(attribute.name),
                                      databaseType) )
             => /\ FailedAtAttribute(k, j) /\ error = "ReservedName"
                /\ ~Has(parsedData.fields, AttributeId(i, j))
  /\ returned # <<>> =>
       /\ \A id \in DOMAIN returned[1].classes :
            /\ ~isReservedClassName(returned[1].classes[id].name)
            /\ ~isReservedTableName(returned[1].classes[id].tableName,
                                    databaseType)
       /\ \A id \in DOMAIN returned[1].fields :
            ~isReservedFieldName(returned[1].fields[id].name, databaseType)

C8_Witness ==
  /\ error = "ReservedName"
  /\ pc = "fillClassesAndFields"
  /\ ~isReservedClassName(
        upperFirst(extractClassName(root[rawClassesIndexes[idx]].name)
                     .entityName))
  /\ databaseType = "sql"

-----------------------------------------------------------------------------
(* Enumerations *)

\* C9: an enumeration fillEnums has reached that has no name or an empty
\* name, or a literal with no name or an empty name, made the parse fail
\* there with NullPointer and is no enum of the model.
C9_EnumNullPointer ==
  \A k \in 1..Len(rawEnumsIndexes) :
    LET i == rawEnumsIndexes[k]
        lits == root[i].ownedLiteral
    IN  ( /\ Attempted(2, k)
          /\ (Falsy(root[i].name) \/ \E m \in 1..Len(lits) : Falsy(lits[m])) )
        => /\ FailedAt(2, k) /\ error = "NullPointer"
           /\ ~Has(parsedData.enums, ElementId(i))

-----------------------------------------------------------------------------
(* The designated user class *)

IsUserClass(i) ==
  ~Falsy(root[i].name) /\ toLowerCase(root[i].name) = user_

\* C10: the designated user-class id is the id of the first class, in
\* document order, among those fillClassesAndFields has reached that is
\* named 'user' in any case, and is unset when there is none; after a
\* successful parse it is, when set, the id of a class of the model.
C10_UserClass ==
  /\ LET users == {k \in 1..Len(rawClassesIndexes) :
                     AttemptedClass(k) /\ IsUserClass(rawClassesIndexes[k])}
     IN  IF users = {}
           THEN userClassId = Undefined
           ELSE userClassId =
                  ElementId(rawClassesIndexes[
                    CHOOSE k \in users : \A m \in users : k <= m])
  /\ (returned # <<>> /\ userClassId # Undefined) =>
       userClassId \in DOMAIN returned[1].classes

C10_Witness ==
  /\ pc = "done"
  /\ Len(rawClassesIndexes) = 2
  /\ \A k \in 1..2 : IsUserClass(rawClassesIndexes[k])
  /\ userClassId = ElementId(rawClassesIndexes[1])

====
